---- MODULE Spec2Model ----
(***************************************************************************)
(* A model of src/main.go: the benchmarking driver that runs `hey` against *)
(* two URLs, scrapes each report into a record, writes the records to      *)
(* hey_results.csv, reads the file back and renders four line charts.      *)
(*                                                                         *)
(* Go strings are modelled as sequences of one-character strings, so that  *)
(* slugging, regular-expression scraping, number formatting and the CSV    *)
(* encoding are computed character by character, as the code computes      *)
(* them.                                                                   *)
(***************************************************************************)
EXTENDS Integers, Sequences, FiniteSets, TLC

VARIABLES
    pc,          \* position in main, or "call"/"return" of a function under test
    input,       \* argument of the function under test (function specifications)
    output,      \* its result
    u,           \* main: index into urls of the outer loop
    i,           \* main: repetition counter of the inner loop
    file,        \* main: the path runHey returned for the current repetition
    results,     \* main: the collected records ([]map[string]string)
    artifacts,   \* the files under hey_results/: path -> content
    csvFile,     \* the content of hey_results.csv, or NoFile
    csvResults,  \* main: what readCSV returned
    charts,      \* the charts rendered so far, in order
    invoked,     \* observation: the (url index, repetition, outcome) of every runHey call
    slept,       \* observation: a time.Sleep has run since the last runHey call ended
    writeErr,    \* observation: writeCSV returned an error
    readErr      \* observation: readCSV returned an error

vars == <<pc, input, output, u, i, file, results, artifacts, csvFile,
          csvResults, charts, invoked, slept, writeErr, readErr>>

mainVars == <<u, i, file, results, artifacts, csvFile, csvResults, charts,
              invoked, slept, writeErr, readErr>>

(***************************************************************************)
(* Bounds of the model.                                                    *)
(***************************************************************************)
\* Repetitions per URL that the model of main's loop runs (the code runs `repeat`).
MaxRepeat == 2
\* Segments a slugifyURL / inferURLFromFile test string is built from.
MaxSegs == 3
\* Lines of a report text given to parseHeyFile on its own.
MaxLines == 2
\* Records given to writeCSV on its own.
MaxRecords == 2

(***************************************************************************)
(* Program constants.                                                      *)
(***************************************************************************)
urls == << <<"h","t","t","p","s",":","/","/","g","r","e","e","n","-","a","p","i","s",".",
      "n","e","s","g","n","a","s",".","u","k","/","p","e","r","s","o","n","s">>,
           <<"h","t","t","p","s",":","/","/","a","p","i","s",".","n","e","s","g","n","a",
      "s",".","u","k","/","p","e","r","s","o","n","s">> >>

repeat == 30

outDir == <<"h","e","y","_","r","e","s","u","l","t","s">>

\* What the file system holds at a path: NoFile, or <<content>>.
NoFile == <<>>

File(content) == <<content>>

(***************************************************************************)
(* Characters and strings.                                                 *)
(***************************************************************************)
Digits == {"0", "1", "2", "3", "4", "5", "6", "7", "8", "9"}

Lower == {"a", "b", "c", "d", "e", "f", "g", "h", "i", "j", "k", "l", "m",
          "n", "o", "p", "q", "r", "s", "t", "u", "v", "w", "x", "y", "z"}

Upper == {"A", "B", "C", "D", "E", "F", "G", "H", "I", "J", "K", "L", "M",
          "N", "O", "P", "Q", "R", "S", "T", "U", "V", "W", "X", "Y", "Z"}

\* The class [a-zA-Z0-9] of slugifyURL's regular expression.
IsAlnum(c) == c \in Lower \cup Upper \cup Digits

DigitSeq == <<"0", "1", "2", "3", "4", "5", "6", "7", "8", "9">>

DigitChar(d) == DigitSeq[d + 1]

DigitVal(c) == CHOOSE d \in 0..9 : DigitSeq[d + 1] = c

\* s[from..] starts with p.
HasPrefixAt(s, from, p) ==
    /\ from + Len(p) - 1 <= Len(s)
    /\ \A k \in 1..Len(p) : s[from + k - 1] = p[k]

\* strings.Contains(s, sub)
Contains(s, sub) == \E k \in 1..(Len(s) + 1) : HasPrefixAt(s, k, sub)

\* The least position >= from where s holds p, and 0 when there is none.
IndexFrom(s, from, p) ==
    LET at == {k \in from..(Len(s) + 1) : HasPrefixAt(s, k, p)}
    IN  IF at = {} THEN 0 ELSE CHOOSE x \in at : \A y \in at : x <= y

RECURSIVE ReplaceFrom(_, _, _, _)
ReplaceFrom(s, from, old, new) ==
    LET k == IndexFrom(s, from, old)
    IN  IF k = 0 THEN SubSeq(s, from, Len(s))
        ELSE SubSeq(s, from, k - 1) \o new \o ReplaceFrom(s, k + Len(old), old, new)

\* strings.ReplaceAll(s, old, new) for a non-empty old: the non-overlapping
\* occurrences of old, found left to right, are replaced.
ReplaceAll(s, old, new) == ReplaceFrom(s, 1, old, new)

\* regexp.MustCompile(`[^a-zA-Z0-9]`).ReplaceAllString(s, "_")
ReplaceNonAlnum(s) == [k \in 1..Len(s) |-> IF IsAlnum(s[k]) THEN s[k] ELSE "_"]

RECURSIVE Itoa(_)
\* fmt's %d and strconv.Itoa for n >= 0
Itoa(n) == IF n < 10 THEN <<DigitChar(n)>>
           ELSE Itoa(n \div 10) \o <<DigitChar(n % 10)>>

RECURSIVE LastIndexOf(_, _, _)
LastIndexOf(s, c, k) == IF k = 0 THEN 0
                        ELSE IF s[k] = c THEN k ELSE LastIndexOf(s, c, k - 1)

\* filepath.Base for a non-empty path that does not end in a separator.
Base(path) == SubSeq(path, LastIndexOf(path, "/", Len(path)) + 1, Len(path))

\* filepath.Join(dir, name) for clean, non-empty elements.
Join(dir, name) == dir \o <<"/">> \o name

(***************************************************************************)
(* slugifyURL, inferURLFromFile and the artifact path of runHey.           *)
(***************************************************************************)
Protocol == <<"h","t","t","p","s",":","/","/">>

\* Faulty variant: the protocol text is not removed.
SlugKeepsProtocol(url) == ReplaceNonAlnum(url)

slugifyURL(url) == ReplaceNonAlnum(ReplaceAll(url, Protocol, <<>>))

\* Faulty variant: the marker is looked for at the start of the name only.
inferPrefixOnly(filename) ==
    IF HasPrefixAt(filename, 1, <<"g","r","e","e","n">>) THEN "green-cloud" ELSE "t2no3"

inferURLFromFile(filename) ==
    IF Contains(filename, <<"g","r","e","e","n">>) THEN "green-cloud" ELSE "t2no3"

\* Faulty variant: the repetition index is left out of the name.
OutFileNoIndex(url, n) ==
    Join(outDir, <<"h","e","y","_","r","e","s","u","l","t","_">> \o slugifyURL(url) \o <<".","t","x","t">>)

\* runHey's outFile: filepath.Join(outDir, fmt.Sprintf("hey_result_%s_%d.txt", slug, i))
OutFile(url, n) ==
    Join(outDir, <<"h","e","y","_","r","e","s","u","l","t","_">> \o slugifyURL(url) \o <<"_">> \o Itoa(n) \o <<".","t","x","t">>)

(***************************************************************************)
(* Numbers.  A float64 that arises here is a non-negative decimal          *)
(* m * 10^(-e), kept normalised (e = 0 or m not divisible by 10), so that  *)
(* equal numbers are equal values.  The strings the program parses are     *)
(* runs of digits and dots (the capture [\d.]+) and the outputs of %.4f.   *)
(***************************************************************************)
RECURSIVE Pow10(_)
Pow10(k) == IF k = 0 THEN 1 ELSE 10 * Pow10(k - 1)

RECURSIVE Norm(_, _)
Norm(m, e) == IF e > 0 /\ m % 10 = 0 THEN Norm(m \div 10, e - 1)
              ELSE [m |-> m, e |-> e]

Zero == [m |-> 0, e |-> 0]

RECURSIVE DigitsToNat(_)
DigitsToNat(s) == IF s = <<>> THEN 0
                  ELSE 10 * DigitsToNat(SubSeq(s, 1, Len(s) - 1)) + DigitVal(s[Len(s)])

\* strconv.ParseFloat accepts digits with at most one dot and at least one
\* digit; of the strings over other characters the model knows none.
IsDecimal(s) ==
    /\ \A k \in 1..Len(s) : s[k] \in Digits \cup {"."}
    /\ Cardinality({k \in 1..Len(s) : s[k] = "."}) <= 1
    /\ \E k \in 1..Len(s) : s[k] \in Digits

DecimalValue(s) ==
    LET dots == {k \in 1..Len(s) : s[k] = "."}
        d    == IF dots = {} THEN Len(s) + 1 ELSE CHOOSE k \in dots : TRUE
        frac == IF dots = {} THEN 0 ELSE Len(s) - d
    IN  Norm(DigitsToNat(SelectSeq(s, LAMBDA c : c # ".")), frac)

\* strconv.ParseFloat(s, 64): <<value, ok>>; the value is 0 on a syntax error.
ParseFloat(s) == IF IsDecimal(s) THEN <<DecimalValue(s), TRUE>> ELSE <<Zero, FALSE>>

\* parseFloat of main.go: the error is dropped.
parseFloat(s) == ParseFloat(s)[1]

Pad4(n) == <<DigitChar((n \div 1000) % 10), DigitChar((n \div 100) % 10),
             DigitChar((n \div 10) % 10), DigitChar(n % 10)>>

\* The number of ten-thousandths nearest to v.  A tie is rounded to even; which
\* way float64 rounds a tie depends on the binary value, and no number of the
\* model is a tie.
Round4(v) ==
    IF v.e <= 4 THEN v.m * Pow10(4 - v.e)
    ELSE LET p == Pow10(v.e - 4)
             q == v.m \div p
             r == v.m % p
         IN  IF 2 * r > p \/ (2 * r = p /\ q % 2 = 1) THEN q + 1 ELSE q

\* fmt.Sprintf("%.4f", v)
Sprintf4f(v) == LET n == Round4(v) IN Itoa(n \div 10000) \o <<".">> \o Pad4(n % 10000)

(***************************************************************************)
(* The regular expressions of parseHeyFile.  Each is a literal, then \s+   *)
(* or nothing, then the capture ([\d.]+).                                  *)
(***************************************************************************)
Space == {" ", "\t", "\n", "\r", "\f"}

NumChars == Digits \cup {"."}

RECURSIVE RunLen(_, _, _)
\* The length of the longest run of characters of class cls in s from `from`.
RunLen(s, from, cls) ==
    IF from > Len(s) \/ s[from] \notin cls THEN 0
    ELSE 1 + RunLen(s, from + 1, cls)

percentiles ==
    [p50 |-> [lit |-> <<"5","0","%"," ","i","n"," ">>, ws |-> FALSE],
     p75 |-> [lit |-> <<"7","5","%"," ","i","n"," ">>, ws |-> FALSE],
     p90 |-> [lit |-> <<"9","0","%"," ","i","n"," ">>, ws |-> FALSE],
     p95 |-> [lit |-> <<"9","5","%"," ","i","n"," ">>, ws |-> FALSE],
     p99 |-> [lit |-> <<"9","9","%"," ","i","n"," ">>, ws |-> FALSE]]

fields ==
    [total            |-> [lit |-> <<"T","o","t","a","l",":">>, ws |-> TRUE],
     fastest          |-> [lit |-> <<"F","a","s","t","e","s","t",":">>, ws |-> TRUE],
     slowest          |-> [lit |-> <<"S","l","o","w","e","s","t",":">>, ws |-> TRUE],
     average          |-> [lit |-> <<"A","v","e","r","a","g","e",":">>, ws |-> TRUE],
     requests_per_sec |-> [lit |-> <<"R","e","q","u","e","s","t","s","/","s","e","c",":">>, ws |-> TRUE],
     size_request     |-> [lit |-> <<"S","i","z","e","/","r","e","q","u","e","s","t",":">>, ws |-> TRUE]]

\* Where the capture of re starts when re matches line at k, and 0 when it does not.
CaptureAt(re, line, k) ==
    IF ~HasPrefixAt(line, k, re.lit) THEN 0
    ELSE LET a == k + Len(re.lit)
             w == RunLen(line, a, Space)
             b == IF re.ws THEN a + w ELSE a
         IN  IF (re.ws /\ w = 0) \/ RunLen(line, b, NumChars) = 0 THEN 0 ELSE b

\* re.FindStringSubmatch(line): <<match, capture>> of the leftmost match, or <<>>.
FindStringSubmatch(re, line) ==
    LET at == {k \in 1..Len(line) : CaptureAt(re, line, k) # 0}
    IN  IF at = {} THEN <<>>
        ELSE LET k == CHOOSE x \in at : \A y \in at : x <= y
                 b == CaptureAt(re, line, k)
                 n == RunLen(line, b, NumChars)
             IN  <<SubSeq(line, k, b + n - 1), SubSeq(line, b, b + n - 1)>>

\* extractFloat(re, line)
extractFloat(re, line) ==
    LET match == FindStringSubmatch(re, line)
    IN  IF Len(match) >= 2 THEN ParseFloat(match[2])[1] ELSE Zero

RECURSIVE ScanLines(_)
\* bufio.Scanner with the default split function: the lines of the content,
\* without their terminators; a final line with no terminator counts if not empty.
ScanLines(content) ==
    IF content = <<>> THEN <<>>
    ELSE LET nl   == {k \in 1..Len(content) : content[k] = "\n"}
             stop == IF nl = {} THEN Len(content) + 1
                     ELSE CHOOSE x \in nl : \A y \in nl : x <= y
             raw  == SubSeq(content, 1, stop - 1)
             line == IF raw # <<>> /\ raw[Len(raw)] = "\r"
                     THEN SubSeq(raw, 1, Len(raw) - 1) ELSE raw
         IN  <<line>> \o ScanLines(SubSeq(content, stop + 1, Len(content)))

\* One pass of parseHeyFile's loop body over a line: every pattern whose value
\* is not 0 stores it, formatted, under its key.
ScanLine(result, line) ==
    LET hitP == {k \in DOMAIN percentiles : extractFloat(percentiles[k], line) # Zero}
        hitF == {k \in DOMAIN fields : extractFloat(fields[k], line) # Zero}
    IN  [k \in DOMAIN result \cup hitP \cup hitF |->
            IF k \in hitF THEN Sprintf4f(extractFloat(fields[k], line))
            ELSE IF k \in hitP THEN Sprintf4f(extractFloat(percentiles[k], line))
            ELSE result[k]]

RECURSIVE ScanAll(_, _, _)
ScanAll(result, lines, n) ==
    IF n > Len(lines) THEN result
    ELSE ScanAll(ScanLine(result, lines[n]), lines, n + 1)

\* parseHeyFile(file), f being what the file system holds at path: NoFile when it
\* cannot be opened (os.Open's error is dropped and the scanner of the nil file
\* yields no line), <<content>> otherwise.
parseHeyFile(path, f) ==
    LET start == [k \in {"file"} |-> Base(path)]
    IN  IF f = NoFile THEN start
        ELSE ScanAll(start, ScanLines(f[1]), 1)

\* row[h] of a Go map: the empty string for a missing key.
Get(row, h) == IF h \in DOMAIN row THEN row[h] ELSE <<>>

(***************************************************************************)
(* encoding/csv as writeCSV and readCSV use it: comma separated, "\n"      *)
(* terminated records, fields quoted when they need it.                    *)
(***************************************************************************)
headers == <<"file", "total", "average", "fastest", "slowest", "requests_per_sec",
             "size_request", "p50", "p75", "p90", "p95", "p99">>

\* The characters of a column name.
Name ==
    [file |-> <<"f","i","l","e">>, total |-> <<"t","o","t","a","l">>, average |-> <<"a","v","e","r","a","g","e">>,
     fastest |-> <<"f","a","s","t","e","s","t">>, slowest |-> <<"s","l","o","w","e","s","t">>,
     requests_per_sec |-> <<"r","e","q","u","e","s","t","s","_","p","e","r","_","s","e","c">>, size_request |-> <<"s","i","z","e","_","r","e","q","u","e","s","t">>,
     p50 |-> <<"p","5","0">>, p75 |-> <<"p","7","5">>, p90 |-> <<"p","9","0">>, p95 |-> <<"p","9","5">>,
     p99 |-> <<"p","9","9">>]

\* csv.Writer.fieldNeedsQuotes
fieldNeedsQuotes(field) ==
    /\ field # <<>>
    /\ \/ field = <<"\\", ".">>
       \/ \E k \in 1..Len(field) : field[k] \in {"\n", "\r", "\"", ","}
       \/ field[1] \in Space

RECURSIVE DoubleQuotes(_)
DoubleQuotes(field) ==
    IF field = <<>> THEN <<>>
    ELSE (IF field[1] = "\"" THEN <<"\"", "\"">> ELSE <<field[1]>>)
         \o DoubleQuotes(Tail(field))

WriteField(field) ==
    IF fieldNeedsQuotes(field) THEN <<"\"">> \o DoubleQuotes(field) \o <<"\"">>
    ELSE field

RECURSIVE JoinFields(_, _)
JoinFields(record, n) ==
    IF n > Len(record) THEN <<>>
    ELSE (IF n > 1 THEN <<",">> ELSE <<>>) \o WriteField(record[n])
         \o JoinFields(record, n + 1)

\* csv.Writer.Write(record)
WriteRecord(record) == JoinFields(record, 1) \o <<"\n">>

RECURSIVE WriteRows(_, _)
WriteRows(data, n) ==
    IF n > Len(data) THEN <<>>
    ELSE WriteRecord([c \in 1..Len(headers) |-> Get(data[n], headers[c])])
         \o WriteRows(data, n + 1)

\* Faulty variant: the header row is not written.
writeCSVNoHeader(data) == WriteRows(data, 1)

\* What writeCSV(data, filename) leaves in the file once os.Create has succeeded.
writeCSV(data) ==
    WriteRecord([c \in 1..Len(headers) |-> Name[headers[c]]]) \o WriteRows(data, 1)

\* The least position >= from where s holds a character of cs, and Len(s) + 1
\* when there is none.
IndexAnyFrom(s, from, cs) ==
    LET at == {k \in from..Len(s) : s[k] \in cs}
    IN  IF at = {} THEN Len(s) + 1 ELSE CHOOSE x \in at : \A y \in at : x <= y

RECURSIVE QuotedField(_, _, _)
\* The rest of a quoted field of s from p, acc being what was read of it: a
\* doubled quote is a quote, a single one ends the field and must be followed by
\* a comma, the end of the line or the end of the input.
QuotedField(s, p, acc) ==
    LET k == IndexAnyFrom(s, p, {"\""})
    IN  IF k > Len(s) THEN [field |-> acc, next |-> k, err |-> TRUE]
        ELSE IF k < Len(s) /\ s[k + 1] = "\""
             THEN QuotedField(s, k + 2, acc \o SubSeq(s, p, k))
             ELSE [field |-> acc \o SubSeq(s, p, k - 1), next |-> k + 1,
                   err |-> k < Len(s) /\ s[k + 1] \notin {",", "\n"}]

\* The field of s that starts at p: its value, the position after it, and
\* whether it is malformed (a bare quote in an unquoted field).
ReadField(s, p) ==
    IF p <= Len(s) /\ s[p] = "\"" THEN QuotedField(s, p + 1, <<>>)
    ELSE LET stop == IndexAnyFrom(s, p, {",", "\n"})
         IN  [field |-> SubSeq(s, p, stop - 1), next |-> stop,
              err |-> \E k \in p..(stop - 1) : s[k] = "\""]

RECURSIVE ReadRecord(_, _, _)
\* The record of s whose next field starts at p, rec being its fields so far.
ReadRecord(s, p, rec) ==
    LET f == ReadField(s, p)
    IN  IF f.err THEN [record |-> rec, next |-> f.next, err |-> TRUE]
        ELSE IF f.next <= Len(s) /\ s[f.next] = ","
             THEN ReadRecord(s, f.next + 1, Append(rec, f.field))
             ELSE [record |-> Append(rec, f.field), next |-> f.next + 1, err |-> FALSE]

RECURSIVE ReadAll(_, _, _)
\* The records of s from the line that starts at p; empty lines are skipped.
ReadAll(s, p, rows) ==
    IF p > Len(s) THEN [rows |-> rows, err |-> FALSE]
    ELSE IF s[p] = "\n" THEN ReadAll(s, p + 1, rows)
    ELSE LET r == ReadRecord(s, p, <<>>)
         IN  IF r.err THEN [rows |-> rows, err |-> TRUE]
             ELSE ReadAll(s, r.next, Append(rows, r.record))

\* All the records of the content, the header included: the reader turns every
\* "\r\n" into "\n" as it reads lines and wants every record to have as many
\* fields as the first; on an error ReadAll returns no record after the header.
CsvRecords(content) ==
    LET got == ReadAll(ReplaceAll(content, <<"\r", "\n">>, <<"\n">>), 1, <<>>)
    IN  IF got.err \/ \E n \in 1..Len(got.rows) : Len(got.rows[n]) # Len(got.rows[1])
        THEN (IF got.rows = <<>> THEN <<>> ELSE <<got.rows[1]>>)
        ELSE got.rows

\* index[name] of readCSV: the last column with that header, 0 for a missing name.
Index(head, name) ==
    LET at == {k \in 1..Len(head) : head[k] = Name[name]}
    IN  IF at = {} THEN 0 ELSE (CHOOSE x \in at : \A y \in at : y <= x) - 1

\* The HeyResult readCSV builds of a row.
RowResult(head, row) ==
    [File    |-> row[Index(head, "file") + 1],
     URL     |-> inferURLFromFile(row[Index(head, "file") + 1]),
     RPS     |-> parseFloat(row[Index(head, "requests_per_sec") + 1]),
     P95     |-> parseFloat(row[Index(head, "p95") + 1]),
     Average |-> parseFloat(row[Index(head, "average") + 1]),
     Total   |-> parseFloat(row[Index(head, "total") + 1])]

\* readCSV(path) once os.Open has succeeded, content being the file's content.
readCSV(content) ==
    LET all  == CsvRecords(content)
        head == IF all = <<>> THEN <<>> ELSE all[1]
    IN  [n \in 1..(Len(all) - 1) |-> RowResult(head, all[n + 1])]

(***************************************************************************)
(* The chart renderer.                                                     *)
(***************************************************************************)
extractMetric(r, metric) ==
    CASE metric = "rps"     -> r.RPS
      [] metric = "p95"     -> r.P95
      [] metric = "average" -> r.Average
      [] metric = "total"   -> r.Total
      [] OTHER              -> Zero

\* Faulty variant: the rows are not grouped by URL.
SeriesOfAllRows(data, metric, url) ==
    [k \in 1..Len(data) |-> extractMetric(data[k], metric)]

\* urlGroups[url] after the loop over data: the metric of the rows of that url, in order.
SeriesOf(data, metric, url) ==
    LET mine == SelectSeq(data, LAMBDA d : d.URL = url)
    IN  [k \in 1..Len(mine) |-> extractMetric(mine[k], metric)]

\* Faulty variant: a series is added for both identities, met in data or not.
generateLineChartAllURLs(data, metric, title, filename) ==
    [title  |-> title,
     yAxis  |-> metric,
     xAxis  |-> [k \in 1..repeat |-> Itoa(k)],
     series |-> [url \in {"green-cloud", "t2no3"} |-> SeriesOf(data, metric, url)],
     file   |-> filename]

\* The chart generateLineChart renders: one series per URL met in data.
generateLineChart(data, metric, title, filename) ==
    [title  |-> title,
     yAxis  |-> metric,
     xAxis  |-> [k \in 1..repeat |-> Itoa(k)],
     series |-> [url \in {data[k].URL : k \in 1..Len(data)} |->
                    SeriesOf(data, metric, url)],
     file   |-> filename]

\* The four calls of main, in order.
ChartCalls ==
    <<[metric |-> "rps", title |-> "Requests Per Second", file |-> "chart_rps.html"],
      [metric |-> "p95", title |-> "95th Percentile Latency", file |-> "chart_p95.html"],
      [metric |-> "average", title |-> "Average Latency", file |-> "chart_avg.html"],
      [metric |-> "total", title |-> "Total Time", file |-> "chart_total.html"]>>

(***************************************************************************)
(* main.  The loop runs LoopRepeat repetitions per URL: `repeat` of them   *)
(* in the code, no more than MaxRepeat in the model.                       *)
(***************************************************************************)
LoopRepeat == IF MaxRepeat < repeat THEN MaxRepeat ELSE repeat

\* What `hey` may print (the model draws its standard output from these).
ReportA == <<" "," ","T","o","t","a","l",":","\t","3",".","0","0","0","0"," ","s","e",
      "c","s","\n"," "," ","A","v","e","r","a","g","e",":","\t","0",".","0","2",
      "3","4"," ","s","e","c","s","\n"," "," ","R","e","q","u","e","s","t","s",
      "/","s","e","c",":","\t","1","2","3",".","4","5","0","0","\n"," "," ","9",
      "5","%"," ","i","n"," ","0",".","0","4","5","6"," ","s","e","c","s","\n">>

ReportB == <<" "," ","R","e","q","u","e","s","t","s","/","s","e","c",":","\t","9","9",
      ".","5","0","0","0","\n"," "," ","9","5","%"," ","i","n"," ","0",".","1",
      "2","0","0"," ","s","e","c","s","\n">>

HeyOutputs == {ReportA, ReportB}

\* A hey_results.csv left by an earlier run (main does not remove it).
StaleCSV ==
    writeCSV(<<parseHeyFile(OutFile(urls[1], repeat), File(ReportB)),
               parseHeyFile(OutFile(urls[2], repeat), File(ReportA))>>)

\* The state main starts from: os.RemoveAll and os.MkdirAll have emptied hey_results/.
InitMain ==
    /\ u = 1
    /\ i = 1
    /\ file = <<>>
    /\ results = <<>>
    /\ artifacts = <<>>
    /\ csvFile \in {NoFile, File(StaleCSV)}
    /\ csvResults = <<>>
    /\ charts = <<>>
    /\ invoked = <<>>
    /\ slept = FALSE
    /\ writeErr = FALSE
    /\ readErr = FALSE

Init ==
    /\ pc = "loop"
    /\ input = <<>>
    /\ output = <<>>
    /\ InitMain

\* The file system's answer for a path under hey_results/.
Lookup(path) ==
    IF \E k \in 1..Len(artifacts) : artifacts[k].path = path
    THEN File((CHOOSE a \in {artifacts[k] : k \in 1..Len(artifacts)} : a.path = path).content)
    ELSE NoFile

\* os.WriteFile(path, content, 0644) when it succeeds.
WriteFile(path, content) ==
    IF \E k \in 1..Len(artifacts) : artifacts[k].path = path
    THEN [k \in 1..Len(artifacts) |->
             IF artifacts[k].path = path THEN [path |-> path, content |-> content]
             ELSE artifacts[k]]
    ELSE Append(artifacts, [path |-> path, content |-> content])

\* The step of both for loops: the next repetition, then the next URL, then writeCSV.
NextIteration ==
    /\ i' = IF i < LoopRepeat THEN i + 1 ELSE 1
    /\ u' = IF i < LoopRepeat THEN u ELSE u + 1
    /\ pc' = IF i < LoopRepeat \/ u < Len(urls) THEN "loop" ELSE "write"

\* Faulty variant: a failed invocation leaves a record.
RunHeyFailAppends ==
    /\ pc = "loop"
    /\ invoked' = Append(invoked, [u |-> u, i |-> i, ok |-> FALSE])
    /\ slept' = FALSE
    /\ results' = Append(results, parseHeyFile(<<>>, NoFile))
    /\ NextIteration
    /\ UNCHANGED <<input, output, file, artifacts, csvFile, csvResults, charts,
                   writeErr, readErr>>

\* runHey returns an error (cmd.Output failed): main prints it and continues.
RunHeyFail ==
    /\ pc = "loop"
    /\ invoked' = Append(invoked, [u |-> u, i |-> i, ok |-> FALSE])
    /\ slept' = FALSE
    /\ NextIteration
    /\ UNCHANGED <<input, output, file, results, artifacts, csvFile, csvResults,
                   charts, writeErr, readErr>>

\* runHey succeeds: the output of hey is written to outFile (the error of
\* os.WriteFile is dropped, so the file may not have been written).
RunHeyOk ==
    /\ pc = "loop"
    /\ \E out \in HeyOutputs, wrote \in BOOLEAN :
          /\ file' = OutFile(urls[u], i)
          /\ artifacts' = IF wrote THEN WriteFile(OutFile(urls[u], i), out)
                          ELSE artifacts
    /\ invoked' = Append(invoked, [u |-> u, i |-> i, ok |-> TRUE])
    /\ slept' = FALSE
    /\ pc' = "sleep"
    /\ UNCHANGED <<input, output, u, i, results, csvFile, csvResults, charts,
                   writeErr, readErr>>

\* time.Sleep(1 * time.Second)
Sleep ==
    /\ pc = "sleep"
    /\ slept' = TRUE
    /\ pc' = "parse"
    /\ UNCHANGED <<input, output, u, i, file, results, artifacts, csvFile,
                   csvResults, charts, invoked, writeErr, readErr>>

\* data := parseHeyFile(file); data["url"] = url; results = append(results, data)
WithURL(data, url) == [k \in DOMAIN data \cup {"url"} |-> IF k = "url" THEN url ELSE data[k]]

ParseAndCollect ==
    /\ pc = "parse"
    /\ results' = Append(results, WithURL(parseHeyFile(file, Lookup(file)), urls[u]))
    /\ NextIteration
    /\ UNCHANGED <<input, output, file, artifacts, csvFile, csvResults, charts,
                   invoked, slept, writeErr, readErr>>

\* writeCSV(results, "hey_results.csv") returns nil.
WriteCSVOk ==
    /\ pc = "write"
    /\ csvFile' = File(writeCSV(results))
    /\ pc' = "read"
    /\ UNCHANGED <<input, output, u, i, file, results, artifacts, csvResults,
                   charts, invoked, slept, writeErr, readErr>>

\* Faulty variant: a writeCSV error ends the run.
WriteCSVFailStops ==
    /\ pc = "write"
    /\ writeErr' = TRUE
    /\ pc' = "done"
    /\ UNCHANGED <<input, output, u, i, file, results, artifacts, csvFile,
                   csvResults, charts, invoked, slept, readErr>>

\* writeCSV returns the error of os.Create: main prints it and goes on; the file
\* is as it was.
WriteCSVFail ==
    /\ pc = "write"
    /\ writeErr' = TRUE
    /\ pc' = "read"
    /\ UNCHANGED <<input, output, u, i, file, results, artifacts, csvFile,
                   csvResults, charts, invoked, slept, readErr>>

\* readCSV("hey_results.csv") returns the rows.
ReadCSVOk ==
    /\ pc = "read"
    /\ csvFile # NoFile
    /\ csvResults' = readCSV(csvFile[1])
    /\ pc' = "chart"
    /\ UNCHANGED <<input, output, u, i, file, results, artifacts, csvFile, charts,
                   invoked, slept, writeErr, readErr>>

\* readCSV returns the error of os.Open: main prints it and returns.
ReadCSVFail ==
    /\ pc = "read"
    /\ readErr' = TRUE
    /\ pc' = "done"
    /\ UNCHANGED <<input, output, u, i, file, results, artifacts, csvFile,
                   csvResults, charts, invoked, slept, writeErr>>

\* The next of the four generateLineChart calls (the error of os.Create is
\* dropped; charts records the chart rendered).
GenerateLineChart ==
    /\ pc = "chart"
    /\ LET call == ChartCalls[Len(charts) + 1]
       IN  charts' = Append(charts, generateLineChart(csvResults, call.metric,
                                                      call.title, call.file))
    /\ pc' = IF Len(charts) + 1 = Len(ChartCalls) THEN "done" ELSE "chart"
    /\ UNCHANGED <<input, output, u, i, file, results, artifacts, csvFile,
                   csvResults, invoked, slept, writeErr, readErr>>

Next ==
    \/ RunHeyFail
    \/ RunHeyOk
    \/ Sleep
    \/ ParseAndCollect
    \/ WriteCSVOk
    \/ WriteCSVFail
    \/ ReadCSVOk
    \/ ReadCSVFail
    \/ GenerateLineChart

Spec == Init /\ [][Next]_vars

(***************************************************************************)
(* Specifications of the functions on their own: the argument is drawn in  *)
(* the initial state, the action applies the function.                     *)
(***************************************************************************)
\* main is not running.
IdleMain ==
    /\ u = 0
    /\ i = 0
    /\ file = <<>>
    /\ results = <<>>
    /\ artifacts = <<>>
    /\ csvFile = NoFile
    /\ csvResults = <<>>
    /\ charts = <<>>
    /\ invoked = <<>>
    /\ slept = FALSE
    /\ writeErr = FALSE
    /\ readErr = FALSE

RECURSIVE Concats(_, _)
\* The concatenations of at most n elements of S.
Concats(S, n) ==
    IF n = 0 THEN {<<>>}
    ELSE LET shorter == Concats(S, n - 1)
         IN  shorter \cup {a \o b : a \in shorter, b \in S}

RECURSIVE SeqsUpTo(_, _)
\* The sequences of at most n elements of S.
SeqsUpTo(S, n) ==
    IF n = 0 THEN {<<>>}
    ELSE LET shorter == SeqsUpTo(S, n - 1)
         IN  shorter \cup {Append(a, b) : a \in shorter, b \in S}

ExampleURL == <<"h","t","t","p","s",":","/","/","e","x","a","m","p","l","e",".","u","k","/",
      "p","e","r","s","o","n","s">>

SlugSegments == {Protocol, <<"h","t","t","p">>, <<"s",":","/","/">>, <<"a">>, <<"Z">>, <<"7">>, <<".">>, <<"/">>,
                 <<"_">>, <<"-">>, <<" ">>}

SlugInputs == Concats(SlugSegments, MaxSegs) \cup {urls[1], urls[2], ExampleURL}

InitSlug ==
    /\ pc = "call"
    /\ input \in SlugInputs
    /\ output = <<>>
    /\ IdleMain

CallSlugifyURL ==
    /\ pc = "call"
    /\ output' = slugifyURL(input)
    /\ pc' = "return"
    /\ UNCHANGED <<input, mainVars>>

SpecSlug == InitSlug /\ [][CallSlugifyURL]_vars

InferSegments == {<<"g","r","e","e","n">>, <<"g","r","e">>, <<"e","n">>, <<"g">>, <<"G","r","e","e","n">>, <<"_">>, <<"h","e","y","_","r","e","s","u","l","t","_">>,
                  <<".","t","x","t">>, <<"a","p","i","s">>}

InferInputs ==
    Concats(InferSegments, MaxSegs)
    \cup {Base(OutFile(urls[a], n)) : a \in 1..Len(urls), n \in 1..repeat}

InitInfer ==
    /\ pc = "call"
    /\ input \in InferInputs
    /\ output = ""
    /\ IdleMain

CallInferURLFromFile ==
    /\ pc = "call"
    /\ output' = inferURLFromFile(input)
    /\ pc' = "return"
    /\ UNCHANGED <<input, mainVars>>

SpecInfer == InitInfer /\ [][CallInferURLFromFile]_vars

\* The (target, repetition) pairs of a run.
Pairs == {<<a, n>> : a \in 1..Len(urls), n \in 1..repeat}

InitNames ==
    /\ pc = "call"
    /\ input \in Pairs \X Pairs
    /\ output = <<>>
    /\ IdleMain

\* The outFile of runHey for each of two pairs.
CallRunHeyTwice ==
    /\ pc = "call"
    /\ output' = <<OutFile(urls[input[1][1]], input[1][2]),
                   OutFile(urls[input[2][1]], input[2][2])>>
    /\ pc' = "return"
    /\ UNCHANGED <<input, mainVars>>

SpecNames == InitNames /\ [][CallRunHeyTwice]_vars

\* Lines of a report, with their terminators.
ParseLines ==
    {<<" "," ","9","5","%"," ","i","n"," ","0",".","0","4","5","6"," ","s","e","c",
      "s","\n">>,
     <<" "," ","9","5","%"," ","i","n"," ","0",".","1","2","0","0"," ","s","e","c",
      "s","\r","\n">>,
     <<" "," ","9","5","%"," ","i","n"," ","0"," ","s","e","c","s","\n">>,
     <<" "," ","9","5","%"," ","i","n"," ","0",".","0","0","0","0"," ","s","e","c",
      "s","\n">>,
     <<" "," ","9","5","%"," ","i","n"," ","0",".","0","0","0","0","1"," ","s","e",
      "c","s","\n">>,
     <<" "," ","9","5","%"," ","i","n"," ","0",".","0","0","0","0","9"," ","s","e",
      "c","s","\n">>,
     <<" "," ","9","5","%"," ","i","n"," ","7">>,
     <<" "," ","9","5","%"," ","i","n"," ","1",".","2",".","3"," ","s","e","c","s",
      "\n">>,
     <<" "," ","5","0","%"," ","i","n"," ","0",".","0","1","0","0"," ","s","e","c",
      "s","\n">>,
     <<" "," ","T","o","t","a","l",":","\t","3",".","0","0","0","0"," ","s","e",
      "c","s","\n">>,
     <<" "," ","A","v","e","r","a","g","e",":","\t","0",".","0","2","3","4"," ",
      "s","e","c","s","\n">>,
     <<" "," ","R","e","q","u","e","s","t","s","/","s","e","c",":","\t","1","2",
      "3",".","4","5","0","0","\n">>,
     <<" "," ","[","2","0","0","]","\t","1","0","0","0"," ","r","e","s","p","o",
      "n","s","e","s","\n">>,
     <<"\n">>}

ParseInputs == Concats(ParseLines, MaxLines)

InitParse ==
    /\ pc = "call"
    /\ input \in ParseInputs
    /\ output = <<>>
    /\ IdleMain

\* parseHeyFile on the artifact of the first pair, the file holding the input.
CallParseHeyFile ==
    /\ pc = "call"
    /\ output' = parseHeyFile(OutFile(urls[1], 1), File(input))
    /\ pc' = "return"
    /\ UNCHANGED <<input, mainVars>>

SpecParse == InitParse /\ [][CallParseHeyFile]_vars

\* Reports with every subset of the four lines the charts use, in the order hey
\* prints them.
RECURSIVE PickLines(_, _)
PickLines(lines, keep) ==
    IF lines = <<>> THEN <<>>
    ELSE (IF Len(lines) \in keep THEN lines[Len(lines)] ELSE <<>>)
         \o PickLines(SubSeq(lines, 1, Len(lines) - 1), keep)

CoreLines == <<<<" "," ","9","5","%"," ","i","n"," ","0",".","0","4","5","6"," ","s","e","c",
      "s","\n">>, <<" "," ","R","e","q","u","e","s","t","s","/","s","e","c",":","\t","1","2",
      "3",".","4","5","0","0","\n">>,
               <<" "," ","A","v","e","r","a","g","e",":","\t","0",".","0","2","3","4"," ",
      "s","e","c","s","\n">>, <<" "," ","T","o","t","a","l",":","\t","3",".","0","0","0","0"," ","s","e",
      "c","s","\n">>>>

CoreReports == {PickLines(CoreLines, keep) : keep \in SUBSET (1..Len(CoreLines))}

\* Records main can collect: of an artifact that holds a report, or of one that
\* cannot be read.
CsvRecordsIn ==
    {WithURL(parseHeyFile(OutFile(urls[1], 1), f), urls[1]) :
        f \in {NoFile} \cup {File(r) : r \in CoreReports}}
    \cup {WithURL(parseHeyFile(OutFile(urls[2], repeat), File(ReportB)), urls[2])}

InitCSV ==
    /\ pc = "call"
    /\ input \in SeqsUpTo(CsvRecordsIn, MaxRecords)
    /\ output = <<>>
    /\ u = 0
    /\ i = 0
    /\ file = <<>>
    /\ results = <<>>
    /\ artifacts = <<>>
    /\ csvFile \in {NoFile, File(StaleCSV)}
    /\ csvResults = <<>>
    /\ charts = <<>>
    /\ invoked = <<>>
    /\ slept = FALSE
    /\ writeErr = FALSE
    /\ readErr = FALSE

\* writeCSV(input, "hey_results.csv") with os.Create succeeding.
CallWriteCSV ==
    /\ pc = "call"
    /\ csvFile' = File(writeCSV(input))
    /\ pc' = "written"
    /\ UNCHANGED <<input, output, u, i, file, results, artifacts, csvResults,
                   charts, invoked, slept, writeErr, readErr>>

\* readCSV("hey_results.csv") with os.Open succeeding.
CallReadCSV ==
    /\ pc = "written"
    /\ output' = readCSV(csvFile[1])
    /\ pc' = "return"
    /\ UNCHANGED <<input, mainVars>>

NextCSV == CallWriteCSV \/ CallReadCSV

SpecCSV == InitCSV /\ [][NextCSV]_vars

(***************************************************************************)
(* Properties.                                                             *)
(***************************************************************************)
\* The k-th (target, repetition) pair in target-major, ascending repetition order.
PairAt(k) == <<((k - 1) \div LoopRepeat) + 1, ((k - 1) % LoopRepeat) + 1>>

TotalInvocations == Len(urls) * LoopRepeat

\* The artifact base name of the n-th repetition of the a-th target.
ArtifactBase ==
    [a \in 1..Len(urls) |-> [n \in 1..LoopRepeat |-> Base(OutFile(urls[a], n))]]

\* The successful invocations so far, in order.
Succeeded == SelectSeq(invoked, LAMBDA v : v.ok)

\* C1: every (target, repetition) pair is invoked exactly once, in target-major
\* and ascending repetition order, all of them by the end of the loop; a failed
\* invocation leaves no record and is not retried, a successful one leaves exactly
\* one, so the records are those of the successful pairs, in invocation order.
C1_OneRecordPerSuccessfulPair ==
    /\ pc \in {"loop", "sleep", "parse", "write", "read", "chart", "done"}
    /\ Len(invoked) <= TotalInvocations
    /\ \A k \in 1..Len(invoked) : <<invoked[k].u, invoked[k].i>> = PairAt(k)
    /\ pc \in {"write", "read", "chart", "done"} => Len(invoked) = TotalInvocations
    /\ pc = "loop" => <<u, i>> = PairAt(Len(invoked) + 1)
    /\ Len(results) = Len(Succeeded) - (IF pc \in {"sleep", "parse"} THEN 1 ELSE 0)
    /\ \A k \in 1..Len(results) :
          /\ results[k].file = ArtifactBase[Succeeded[k].u][Succeeded[k].i]
          /\ results[k].url = urls[Succeeded[k].u]

\* C1's case: the loop is over, a repetition failed and a later repetition of the
\* same target succeeded.
C1_Witness ==
    /\ pc = "write"
    /\ \E a, b \in 1..Len(invoked) :
          /\ a < b
          /\ invoked[a].u = invoked[b].u
          /\ ~invoked[a].ok
          /\ invoked[b].ok
    /\ Len(results) < TotalInvocations
    /\ Len(results) > 0

\* The value a record holds under a key: of the decimal, and 0 for a missing key.
NumericField(record, key) ==
    IF key \in DOMAIN record THEN DecimalValue(record[key]) ELSE Zero

\* C2: readCSV of what writeCSV wrote gives one row per record, in order, with
\* the record's file and the numeric values of its requests_per_sec, p95, average
\* and total fields, 0 for a field the record lacks; the record of the report
\* with 123.4500, 0.0456, 0.0234 and 3.0000 comes back as those numbers.
C2_WriterReaderRoundTrip ==
    pc = "return" =>
        /\ Len(output) = Len(input)
        /\ \A k \in 1..Len(input) :
              /\ output[k].File = input[k].file
              /\ output[k].RPS = NumericField(input[k], "requests_per_sec")
              /\ output[k].P95 = NumericField(input[k], "p95")
              /\ output[k].Average = NumericField(input[k], "average")
              /\ output[k].Total = NumericField(input[k], "total")
              /\ {"requests_per_sec", "p95", "average", "total"} \subseteq DOMAIN input[k]
                    /\ input[k].total = <<"3",".","0","0","0","0">> /\ input[k].p95 = <<"0",".","0","4","5","6">>
                    /\ input[k].average = <<"0",".","0","2","3","4">>
                    /\ input[k].requests_per_sec = <<"1","2","3",".","4","5","0","0">>
                 => /\ output[k].RPS = [m |-> 12345, e |-> 2]
                    /\ output[k].P95 = [m |-> 456, e |-> 4]
                    /\ output[k].Average = [m |-> 234, e |-> 4]
                    /\ output[k].Total = [m |-> 3, e |-> 0]

\* C2's case: two records were written and read back, the first with all four
\* fields, the second with a throughput and no p95.
C2_Witness ==
    /\ pc = "return"
    /\ Len(input) = 2
    /\ Len(output) = 2
    /\ {"requests_per_sec", "p95", "average", "total"} \subseteq DOMAIN input[1]
    /\ "p95" \notin DOMAIN input[2]
    /\ "requests_per_sec" \in DOMAIN input[2]
    /\ output[1].P95 # Zero
    /\ output[2].P95 = Zero
    /\ output[2].RPS # Zero

\* The numbers X of the lines of a text that match "95% in X".
P95Captures(text) ==
    LET lines == ScanLines(text)
    IN  {FindStringSubmatch(percentiles.p95, lines[n])[2] :
            n \in {k \in 1..Len(lines) :
                      /\ FindStringSubmatch(percentiles.p95, lines[k]) # <<>>
                      /\ IsDecimal(FindStringSubmatch(percentiles.p95, lines[k])[2])}}

\* C3: for a report with a line matching "95% in X", the record of parseHeyFile
\* has a p95 field, and it is X formatted to four decimal places (the X of one of
\* the matching lines when there are several), also when X is 0.
C3_P95IsXToFourPlaces ==
    pc = "return" /\ P95Captures(input) # {} =>
        /\ "p95" \in DOMAIN output
        /\ \E x \in P95Captures(input) : output.p95 = Sprintf4f(DecimalValue(x))

\* C4: inferURLFromFile answers "green-cloud" exactly for the names that hold
\* g, r, e, e, n in a row, and "t2no3" for every other name.
C4_TwoWayClassification ==
    pc = "return" =>
        LET marked == \E k \in 1..(Len(input) - 4) :
                         /\ input[k] = "g"
                         /\ input[k + 1] = "r"
                         /\ input[k + 2] = "e"
                         /\ input[k + 3] = "e"
                         /\ input[k + 4] = "n"
        IN  /\ output \in {"green-cloud", "t2no3"}
            /\ marked => output = "green-cloud"
            /\ ~marked => output = "t2no3"

\* C4's case: the marker is inside the name, not at its start.
C4_Witness ==
    /\ pc = "return"
    /\ input = Base(OutFile(urls[1], 1))
    /\ output = "green-cloud"

\* C5: once every invocation has failed and writeCSV has written the header
\* alone, readCSV returns no row and no error; and whenever readCSV returned no
\* row, the run ends with the four charts, none with a series.
C5_EmptyDatasetStillCharts ==
    /\ pc \in {"read", "chart", "done"} /\ ~writeErr /\ results = <<>> =>
          /\ csvFile = File(WriteRecord([c \in 1..Len(headers) |-> Name[headers[c]]]))
          /\ pc \in {"chart", "done"} /\ ~readErr => csvResults = <<>>
    /\ pc \in {"chart", "done"} /\ ~readErr /\ csvResults = <<>> =>
          /\ \A c \in 1..Len(charts) :
                /\ DOMAIN charts[c].series = {}
                /\ charts[c].yAxis = ChartCalls[c].metric
          /\ pc = "done" => Len(charts) = Len(ChartCalls)

\* C5's case: all invocations failed, the dataset was written and read, and the
\* run is over.
C5_Witness ==
    /\ pc = "done"
    /\ Len(invoked) = TotalInvocations
    /\ \A k \in 1..Len(invoked) : ~invoked[k].ok
    /\ ~writeErr
    /\ ~readErr
    /\ csvResults = <<>>
    /\ Len(charts) = Len(ChartCalls)

\* The positions of a string that no occurrence of "https://" covers.
Unstripped(s) ==
    SelectSeq([k \in 1..Len(s) |-> k],
              LAMBDA k : ~\E o \in 1..k : o + Len(Protocol) > k /\ HasPrefixAt(s, o, Protocol))

\* C6: the slug holds only letters, digits and underscores: it is the target
\* without its "https://" texts, every other character that is no letter and no
\* digit replaced by one underscore; "https://example.uk/persons" gives
\* "example_uk_persons".
C6_SlugIsFileNameSafe ==
    pc = "return" =>
        /\ \A k \in 1..Len(output) : output[k] \in Lower \cup Upper \cup Digits \cup {"_"}
        /\ Len(output) = Len(Unstripped(input))
        /\ \A k \in 1..Len(output) :
              LET c == input[Unstripped(input)[k]]
              IN  output[k] = IF c \in Lower \cup Upper \cup Digits THEN c ELSE "_"
        /\ input = ExampleURL => output = <<"e","x","a","m","p","l","e","_","u","k","_","p","e","r","s","o","n","s">>

\* C6's case: the example target has been slugged.
C6_Witness ==
    /\ pc = "return"
    /\ input = ExampleURL
    /\ output = <<"e","x","a","m","p","l","e","_","u","k","_","p","e","r","s","o","n","s">>

\* C7: a readCSV error ends the run with no chart; no other failure ends it: all
\* the invocations are made whatever fails, after a writeCSV error the run goes on
\* to readCSV, and a run whose readCSV succeeded ends with the four charts.
C7_OnlyReadFailureStops ==
    /\ readErr => pc = "done" /\ charts = <<>>
    /\ pc \in {"write", "read", "chart", "done"} => Len(invoked) = TotalInvocations
    /\ writeErr => pc \in {"read", "chart", "done"}
    /\ pc = "done" /\ ~readErr => Len(charts) = Len(ChartCalls)
    /\ invoked # <<>> /\ ~invoked[Len(invoked)].ok /\ Len(invoked) < TotalInvocations
          => pc = "loop" /\ <<u, i>> = PairAt(Len(invoked) + 1)

\* C7's case: invocations failed, writeCSV failed, readCSV succeeded and the
\* four charts were rendered.
C7_Witness ==
    /\ pc = "done"
    /\ \E k \in 1..Len(invoked) : ~invoked[k].ok
    /\ writeErr
    /\ ~readErr
    /\ Len(charts) = Len(ChartCalls)

\* C8: an invocation that is not the first starts only after a pause since the
\* one before it ended, whether that one succeeded or failed.
C8_PauseBeforeEveryInvocation ==
    pc = "loop" /\ invoked # <<>> => slept

\* C9: two different (target, repetition) pairs never get the same artifact path.
C9_ArtifactNamesUnique ==
    pc = "return" =>
        /\ input[1] # input[2] => output[1] # output[2]
        /\ input[1] = input[2] => output[1] = output[2]

\* C9's case: the same repetition of the two targets.
C9_Witness ==
    /\ pc = "return"
    /\ input[1] = <<1, repeat>>
    /\ input[2] = <<2, repeat>>
    /\ output[1] # output[2]

\* The column a chart metric is read from.
MetricColumn(metric) ==
    CASE metric = "rps"     -> "requests_per_sec"
      [] metric = "p95"     -> "p95"
      [] metric = "average" -> "average"
      [] metric = "total"   -> "total"

\* The identity of the a-th configured target.
IdentityOf(a) == IF a = 1 THEN "green-cloud" ELSE "t2no3"

\* The records this run collected for the a-th target, in order.
RecordsOf(a) == SelectSeq(results, LAMBDA r : r.url = urls[a])

\* The successful repetitions of the a-th target, in order.
SucceededOf(a) == SelectSeq(Succeeded, LAMBDA v : v.u = a)

\* Every chart rendered shows this run: no series but those of the two
\* identities, and for each target the series of its identity holds one point
\* per successful repetition, the k-th being the metric of the k-th successful
\* repetition; a target with no successful repetition has no series.
ChartsShowThisRun ==
    /\ \A a \in 1..Len(urls) :
          LET mine == RecordsOf(a)
              reps == SucceededOf(a)
          IN  /\ Len(mine) = Len(reps)
              /\ Len(mine) <= LoopRepeat
              /\ \A k \in 1..Len(mine) : mine[k].file = ArtifactBase[a][reps[k].i]
              /\ \A k \in 2..Len(reps) : reps[k - 1].i < reps[k].i
              /\ \A c \in 1..Len(charts) :
                    IF mine = <<>> THEN IdentityOf(a) \notin DOMAIN charts[c].series
                    ELSE /\ IdentityOf(a) \in DOMAIN charts[c].series
                         /\ charts[c].series[IdentityOf(a)] =
                               [k \in 1..Len(mine) |->
                                   NumericField(mine[k], MetricColumn(ChartCalls[c].metric))]
    /\ \A c \in 1..Len(charts) :
          /\ DOMAIN charts[c].series \subseteq {IdentityOf(1), IdentityOf(2)}
          /\ Len(charts[c].xAxis) = repeat
          /\ \A id \in DOMAIN charts[c].series : Len(charts[c].series[id]) <= repeat

====
